---- MODULE Spec2Model ----
(***************************************************************************)
(* A model of crewai's LLM facade (src/src/crewai/llm.py): the request     *)
(* parameters LLM.call assembles, the routing of the provider's response   *)
(* (text, tool dispatch, fallbacks, provider failure), the process-wide    *)
(* litellm callback lists that LLM.set_callbacks and LLM.set_env_callbacks *)
(* rewrite, and the context-window budget LLM.get_context_window_size      *)
(* computes from LLM_CONTEXT_WINDOW_SIZES.                                 *)
(*                                                                         *)
(* Python values are tuples of strings: None is the empty tuple, a scalar  *)
(* is <<type, repr>>, a model name or an environment string is the tuple   *)
(* of its characters, a callback object is <<kind, id>>.                   *)
(***************************************************************************)
EXTENDS Integers, Sequences, FiniteSets, TLC

VARIABLES
    llm,                     \* the client object: the fields LLM.__init__ sets
    context_window_size,     \* self.context_window_size, the cached budget (0: not computed)
    ctxReturned,             \* what get_context_window_size last returned (None: not called)
    window_sizes,            \* the module's LLM_CONTEXT_WINDOW_SIZES dict, as it is now
    ctxLog,                  \* one record per get_context_window_size call that returned
    ctxPc,                   \* per thread: where it is in get_context_window_size
    ctxIdx,                  \* per thread: the table entry its loop is at
    params,                  \* the parameter set the request builder produced
    callArgs,                \* the messages and tools given to the builder
    built,                   \* whether the builder has run
    serialized,              \* the dict to_dict returned (<<>>: not called)
    restored,                \* what from_dict was given and how it ended
    environ,                 \* os.environ: the two LITELLM_*_CALLBACKS strings
    callbacks,               \* litellm.callbacks
    success_callback,        \* litellm.success_callback
    async_success_callback,  \* litellm._async_success_callback
    failure_callback,        \* litellm.failure_callback
    pc,                      \* per thread: where it is in LLM.__init__ or LLM.call
    op,                      \* per thread: "init", "call" or "none"
    cbs,                     \* per thread: the callbacks argument of set_callbacks
    snap,                    \* per thread: what is left of the list copy being iterated
    last,                    \* the operation that ended last, until another begins
    sys_stdout,              \* sys.stdout: the wrappers around the original stream, outermost first
    sys_stderr,              \* sys.stderr, likewise
    old_stdout,              \* per thread: the local old_stdout of suppress_warnings
    old_stderr,              \* per thread: the local old_stderr of suppress_warnings
    wrapperId,               \* per thread: the identity of the FilteredStreams its call creates
    created,                 \* how many calls have created FilteredStreams so far
    writing,                 \* per thread: the write it is inside, if any
    ending,                  \* per thread: how the with-block of its call ended
    before,                  \* per thread: the sinks in place when its call began
    overlap                  \* per thread: whether another call was in flight during its call

ctxVars == <<context_window_size, ctxReturned, window_sizes, ctxLog, ctxPc, ctxIdx>>
paramVars == <<params, callArgs, built>>
dictVars == <<serialized, restored>>
registryVars == <<callbacks, success_callback, async_success_callback, failure_callback>>
threadVars == <<pc, op, cbs, snap>>
sinkVars == <<sys_stdout, sys_stderr, old_stdout, old_stderr, wrapperId, created,
              writing, ending, before, overlap>>
callVars == <<environ, registryVars, threadVars, last, sinkVars>>
vars == <<llm, ctxVars, paramVars, dictVars, callVars>>

----------------------------------------------------------------------------
(* Python values *)

None == <<>>
PyFalse == <<"bool", "False">>
PyTrue == <<"bool", "True">>
Int0 == <<"int", "0">>
Int2 == <<"int", "2">>
Int100 == <<"int", "100">>
Int200 == <<"int", "200">>
Float0 == <<"float", "0.0">>
Float07 == <<"float", "0.7">>
EmptyStr == <<"str", "">>
EmptyList == <<"list", "[]">>
EmptyDict == <<"dict", "{}">>

\* bool(v): None, zero, False and the empty containers are falsy.
Truthy(v) == v \notin {None, PyFalse, Int0, Float0, EmptyStr, EmptyList, EmptyDict}

\* a or b
PyOr(a, b) == IF Truthy(a) THEN a ELSE b

----------------------------------------------------------------------------
(* ContextBudget: LLM_CONTEXT_WINDOW_SIZES and get_context_window_size *)

\* The table in declaration order (a Python dict iterates in insertion order).
LLM_CONTEXT_WINDOW_SIZES == <<
    [key |-> <<"g", "p", "t", "-", "4">>, value |-> 8192],
    [key |-> <<"g", "p", "t", "-", "4", "o">>, value |-> 128000],
    [key |-> <<"g", "p", "t", "-", "4", "o", "-", "m", "i", "n", "i">>, value |-> 128000],
    [key |-> <<"g", "p", "t", "-", "4", "-", "t", "u", "r", "b", "o">>, value |-> 128000],
    [key |-> <<"o", "1", "-", "p", "r", "e", "v", "i", "e", "w">>, value |-> 128000],
    [key |-> <<"o", "1", "-", "m", "i", "n", "i">>, value |-> 128000],
    [key |-> <<"g", "e", "m", "i", "n", "i", "-", "2", ".", "0", "-", "f", "l", "a", "s", "h">>, value |-> 1048576],
    [key |-> <<"g", "e", "m", "i", "n", "i", "-", "1", ".", "5", "-", "p", "r", "o">>, value |-> 2097152],
    [key |-> <<"g", "e", "m", "i", "n", "i", "-", "1", ".", "5", "-", "f", "l", "a", "s", "h">>, value |-> 1048576],
    [key |-> <<"g", "e", "m", "i", "n", "i", "-", "1", ".", "5", "-", "f", "l", "a", "s", "h", "-", "8", "b">>, value |-> 1048576],
    [key |-> <<"d", "e", "e", "p", "s", "e", "e", "k", "-", "c", "h", "a", "t">>, value |-> 128000],
    [key |-> <<"g", "e", "m", "m", "a", "2", "-", "9", "b", "-", "i", "t">>, value |-> 8192],
    [key |-> <<"g", "e", "m", "m", "a", "-", "7", "b", "-", "i", "t">>, value |-> 8192],
    [key |-> <<"l", "l", "a", "m", "a", "3", "-", "g", "r", "o", "q", "-", "7", "0", "b", "-", "8", "1", "9", "2", "-", "t", "o", "o", "l", "-", "u", "s", "e", "-", "p", "r", "e", "v", "i", "e", "w">>, value |-> 8192],
    [key |-> <<"l", "l", "a", "m", "a", "3", "-", "g", "r", "o", "q", "-", "8", "b", "-", "8", "1", "9", "2", "-", "t", "o", "o", "l", "-", "u", "s", "e", "-", "p", "r", "e", "v", "i", "e", "w">>, value |-> 8192],
    [key |-> <<"l", "l", "a", "m", "a", "-", "3", ".", "1", "-", "7", "0", "b", "-", "v", "e", "r", "s", "a", "t", "i", "l", "e">>, value |-> 131072],
    [key |-> <<"l", "l", "a", "m", "a", "-", "3", ".", "1", "-", "8", "b", "-", "i", "n", "s", "t", "a", "n", "t">>, value |-> 131072],
    [key |-> <<"l", "l", "a", "m", "a", "-", "3", ".", "2", "-", "1", "b", "-", "p", "r", "e", "v", "i", "e", "w">>, value |-> 8192],
    [key |-> <<"l", "l", "a", "m", "a", "-", "3", ".", "2", "-", "3", "b", "-", "p", "r", "e", "v", "i", "e", "w">>, value |-> 8192],
    [key |-> <<"l", "l", "a", "m", "a", "-", "3", ".", "2", "-", "1", "1", "b", "-", "t", "e", "x", "t", "-", "p", "r", "e", "v", "i", "e", "w">>, value |-> 8192],
    [key |-> <<"l", "l", "a", "m", "a", "-", "3", ".", "2", "-", "9", "0", "b", "-", "t", "e", "x", "t", "-", "p", "r", "e", "v", "i", "e", "w">>, value |-> 8192],
    [key |-> <<"l", "l", "a", "m", "a", "3", "-", "7", "0", "b", "-", "8", "1", "9", "2">>, value |-> 8192],
    [key |-> <<"l", "l", "a", "m", "a", "3", "-", "8", "b", "-", "8", "1", "9", "2">>, value |-> 8192],
    [key |-> <<"m", "i", "x", "t", "r", "a", "l", "-", "8", "x", "7", "b", "-", "3", "2", "7", "6", "8">>, value |-> 32768],
    [key |-> <<"l", "l", "a", "m", "a", "-", "3", ".", "3", "-", "7", "0", "b", "-", "v", "e", "r", "s", "a", "t", "i", "l", "e">>, value |-> 128000],
    [key |-> <<"l", "l", "a", "m", "a", "-", "3", ".", "3", "-", "7", "0", "b", "-", "i", "n", "s", "t", "r", "u", "c", "t">>, value |-> 128000]
>>

DEFAULT_CONTEXT_WINDOW_SIZE == 8192

\* CONTEXT_WINDOW_USAGE_RATIO = 0.75 = RatioNum / RatioDen
RatioNum == 3
RatioDen == 4

\* A build that forgets the usage ratio.
ScaledNoRatio(value) == value

\* int(value * 0.75): the product is exact in a double for every capacity
\* below 2^51, and int() truncates a non-negative float to its floor.
Scaled(value) == (value * RatioNum) \div RatioDen

\* str.startswith
StartsWith(s, prefix) ==
    /\ Len(prefix) <= Len(s)
    /\ SubSeq(s, 1, Len(prefix)) = prefix

\* A loop that keeps the first match: an entry is taken only while the
\* running result is still the default.
ScanStepKeepFirst(model, i, cur) ==
    IF StartsWith(model, window_sizes[i].key) /\ cur = Scaled(DEFAULT_CONTEXT_WINDOW_SIZE)
    THEN Scaled(window_sizes[i].value)
    ELSE cur

\* One iteration of the loop over the table as it is now (the dict iterates
\* in insertion order): entry i overwrites the running result when its key
\* is a prefix of the model name.
ScanStep(model, i, cur) ==
    IF StartsWith(model, window_sizes[i].key)
    THEN Scaled(window_sizes[i].value)
    ELSE cur

RECURSIVE ScanFrom(_, _, _)
ScanFrom(model, i, cur) ==
    IF i > Len(window_sizes) THEN cur
    ELSE ScanFrom(model, i + 1, ScanStep(model, i, cur))

\* A method that never trusts its cache.
NeverCached(cache) == FALSE

\* Line 337: a cache other than 0 is a budget computed earlier.
Cached(cache) == cache # 0

\* The value the method computes when the cache is empty.
ComputeWindow(model) == ScanFrom(model, 1, Scaled(DEFAULT_CONTEXT_WINDOW_SIZE))

----------------------------------------------------------------------------
(* LLMConfig: the fields of LLM.__init__ *)

\* The optional constructor parameters, in declaration order.
OptionalFields == {
    "timeout", "temperature", "top_p", "n", "stop", "max_completion_tokens",
    "max_tokens", "presence_penalty", "frequency_penalty", "logit_bias",
    "response_format", "seed", "logprobs", "top_logprobs", "base_url",
    "api_version", "api_key" }

ConfigFields == {"model", "callbacks"} \cup OptionalFields

\* For each optional field a value that is set but falsy, and one that is truthy.
FalsyValue(f) ==
    CASE f \in {"timeout", "temperature", "top_p", "presence_penalty",
                "frequency_penalty"} -> Float0
      [] f \in {"n", "max_completion_tokens", "max_tokens", "seed",
                "top_logprobs"} -> Int0
      [] f = "logprobs" -> PyFalse
      [] f = "stop" -> EmptyList
      [] f \in {"logit_bias", "response_format"} -> EmptyDict
      [] OTHER -> EmptyStr

TruthyValue(f) ==
    CASE f \in {"timeout", "temperature", "top_p", "presence_penalty",
                "frequency_penalty"} -> Float07
      [] f \in {"n", "seed", "top_logprobs"} -> Int2
      [] f = "max_tokens" -> Int100
      [] f = "max_completion_tokens" -> Int200
      [] f = "logprobs" -> PyTrue
      [] f = "stop" -> <<"list", "['END']">>
      [] f \in {"logit_bias", "response_format"} -> <<"dict", "{'k': 1}">>
      [] OTHER -> <<"str", "v">>

\* LLM.__init__: every parameter is stored as given; the cache starts at 0.
NewLLM(model, callbackList, set, truthy) ==
    [f \in ConfigFields |->
        CASE f = "model" -> model
          [] f = "callbacks" -> callbackList
          [] OTHER -> IF f \notin set THEN None
                      ELSE IF f \in truthy THEN TruthyValue(f)
                      ELSE FalsyValue(f)]

Gpt4o == <<"g", "p", "t", "-", "4", "o">>

----------------------------------------------------------------------------
(* The model names the budget is computed for *)

MaxSuffixLen == 1

SuffixChars == {"o", "-", "1"}

Suffixes == UNION {[1..n -> SuffixChars] : n \in 1..MaxSuffixLen}

TableKeys == {LLM_CONTEXT_WINDOW_SIZES[i].key : i \in DOMAIN LLM_CONTEXT_WINDOW_SIZES}

OtherNames == {
    <<"c", "l", "a", "u", "d", "e", "-", "3">>,
    <<"g", "p", "t", "-", "3", ".", "5", "-", "t", "u", "r", "b", "o">>,
    <<"G", "P", "T", "-", "4">>,
    <<"x", "g", "p", "t", "-", "4">>,
    <<"o", "1">> }

\* Every key, every non-empty proper prefix of a key, every key followed by a
\* short suffix, and names unrelated to the table.
ModelNames ==
    TableKeys
    \cup UNION {{SubSeq(k, 1, n) : n \in 1..Len(k)} : k \in TableKeys}
    \cup {k \o s : k \in TableKeys, s \in Suffixes}
    \cup OtherNames

----------------------------------------------------------------------------
(* RequestBuilder: the parameter set LLM.call hands to litellm.completion *)

ParamKeys == {
    "model", "messages", "timeout", "temperature", "top_p", "n", "stop",
    "max_tokens", "presence_penalty", "frequency_penalty", "logit_bias",
    "response_format", "seed", "logprobs", "top_logprobs", "api_base",
    "api_version", "api_key", "stream", "tools" }

\* The dict literal of LLM.call, before the None values are removed.
RawParams(cfg, messages, tools) ==
    [k \in ParamKeys |->
        CASE k = "messages" -> messages
          [] k = "max_tokens" -> PyOr(cfg["max_tokens"], cfg["max_completion_tokens"])
          [] k = "api_base" -> cfg["base_url"]
          [] k = "stream" -> PyFalse
          [] k = "tools" -> tools
          [] OTHER -> cfg[k]]

\* A build that sends the dict literal as it is.
KeepAll(p) == p

\* {k: v for k, v in params.items() if v is not None}
RemoveNone(p) == [k \in {j \in DOMAIN p : p[j] # None} |-> p[k]]

BuildParams(cfg, messages, tools) == RemoveNone(RawParams(cfg, messages, tools))

OneMessage == <<"list", "[{'role': 'user'}]">>
MessagesChoices == {EmptyList, OneMessage}
ToolsChoices == {None, EmptyList, <<"list", "[{'type': 'function'}]">>}

----------------------------------------------------------------------------
(* CallbackRegistry: the litellm lists and the callback objects *)

\* Callback objects <<kind, id>>: two of class A, one of class B.
Handles == {<<"A", "1">>, <<"A", "2">>, <<"B", "1">>}

\* type(callback): the class of a callback object; a callback name installed
\* from the environment is a str.
Kind(cb) == IF cb \in Handles THEN cb[1] ELSE "str"

\* callback_types = [type(callback) for callback in callbacks]
Kinds(list) == {Kind(list[i]) : i \in DOMAIN list}

\* x in list
Contains(list, x) == \E i \in DOMAIN list : list[i] = x

\* list.remove(x) on a list that holds x: the first occurrence goes.
RECURSIVE Remove(_, _)
Remove(list, x) ==
    IF list = <<>> THEN <<>>
    ELSE IF Head(list) = x THEN Tail(list)
    ELSE <<Head(list)>> \o Remove(Tail(list), x)

\* What litellm.completion does with litellm.callbacks before it sends the
\* request: each callback not yet in a hook list is appended to it.
RECURSIVE AppendMissing(_, _)
AppendMissing(list, new) ==
    IF new = <<>> THEN list
    ELSE AppendMissing(IF Contains(list, Head(new)) THEN list
                       ELSE Append(list, Head(new)),
                       Tail(new))

\* The callbacks lists given to LLM(...) and to call(callbacks=...); the
\* empty list stands for the default [] and for call's default None.
CallbackLists == {
    <<>>,
    <<<<"A", "1">>, <<"B", "1">>>>,
    <<<<"A", "2">>>>,
    <<<<"A", "1">>, <<"A", "2">>>> }

----------------------------------------------------------------------------
(* set_env_callbacks: parsing the comma-separated environment lists *)

\* s.split(","), one segment at a time
RECURSIVE Split(_, _)
Split(s, cur) ==
    IF s = <<>> THEN <<cur>>
    ELSE IF Head(s) = "," THEN <<cur>> \o Split(Tail(s), <<>>)
    ELSE Split(Tail(s), Append(cur, Head(s)))

RECURSIVE LStrip(_)
LStrip(s) == IF s # <<>> /\ Head(s) = " " THEN LStrip(Tail(s)) ELSE s

RECURSIVE RStrip(_)
RStrip(s) ==
    IF s # <<>> /\ s[Len(s)] = " " THEN RStrip(SubSeq(s, 1, Len(s) - 1)) ELSE s

\* cb.strip()
Strip(s) == RStrip(LStrip(s))

RECURSIVE StripNonEmpty(_)
StripNonEmpty(segs) ==
    IF segs = <<>> THEN <<>>
    ELSE (IF Strip(Head(segs)) # <<>> THEN <<Strip(Head(segs))>> ELSE <<>>)
         \o StripNonEmpty(Tail(segs))

\* [cb.strip() for cb in s.split(",") if cb.strip()], and [] for an unset or
\* empty variable
ParseCallbackNames(s) == IF s = <<>> THEN <<>> ELSE StripNonEmpty(Split(s, <<>>))

\* The environment of the process: both lists unset, or both set.
EnvChoices == {
    [success |-> <<>>, failure |-> <<>>],
    [success |-> <<"s", "1", ",", " ", ",", " ", "s", "2">>,
     failure |-> <<" ", "f", "1">>] }

----------------------------------------------------------------------------
(* ResponseRouter: what LLM.call does with the provider's response *)

\* The raw argument payloads of a tool call.
ArgsObject == <<"str", "{\"x\": 1}">>
ArgsTruncated == <<"str", "{\"x\": ">>
ArgsArray == <<"str", "[1]">>
ArgsDictObject == <<"dict", "{'x': 1}">>
Payloads == {ArgsObject, ArgsTruncated, ArgsArray, ArgsDictObject, None}

NoExc == "none"

\* json.loads: a TypeError for what is not text, a JSONDecodeError for text
\* that is not JSON, the decoded value otherwise.
JsonLoads(payload) ==
    IF payload = None \/ payload[1] # "str"
    THEN [exc |-> "TypeError", value |-> None]
    ELSE CASE payload = ArgsObject -> [exc |-> NoExc, value |-> <<"dict", "{'x': 1}">>]
           [] payload = ArgsArray -> [exc |-> NoExc, value |-> <<"list", "[1]">>]
           [] OTHER -> [exc |-> "JSONDecodeError", value |-> None]

\* fn(**function_args) needs a mapping.
IsMapping(v) == v # None /\ v[1] = "dict"

\* The available_functions argument: None, or a dict with these keys.
NoFunctions == [isNone |-> TRUE, keys |-> {}]
FunctionTables == {NoFunctions} \cup {[isNone |-> FALSE, keys |-> K] : K \in {{}, {"f"}, {"f", "g"}}}

\* bool(available_functions)
TruthyTable(fns) == ~fns.isNone /\ fns.keys # {}

\* The first tool call names f or h with any payload; a second one names g.
FirstToolCalls == [name : {"f", "h"}, arguments : Payloads]
SecondToolCall == [name |-> "g", arguments |-> ArgsObject]
ToolCallLists ==
    {<<>>} \cup {<<tc>> : tc \in FirstToolCalls}
           \cup {<<tc, SecondToolCall>> : tc \in FirstToolCalls}

\* The message of the first choice: its content and its tool calls (an absent
\* or None tool_calls is the empty list: both are falsy).
Responses == [content : {None, EmptyStr, <<"str", "hi">>}, tool_calls : ToolCallLists]
NoResponse == [content |-> None, tool_calls |-> <<>>]

\* What the tool function does when called, and whether print(result) raises
\* (str(result) raising, or the output stream refusing the write).
ToolBehaviours ==
    {[raises |-> TRUE, value |-> None, printRaises |-> FALSE]}
    \cup [raises : {FALSE},
          value : {None, <<"int", "42">>, <<"str", "hi">>},
          printRaises : BOOLEAN]

\* How a provider request fails: whether the message matches the
\* context-length signature of LLMContextLengthExceededException.
ProviderFailures == [matchesContextLimit : BOOLEAN]
NoFailure == [matchesContextLimit |-> FALSE]

Return(kind, value) == [type |-> "return", kind |-> kind, value |-> value]
Raise(exc) == [type |-> "raise", kind |-> exc, value |-> None]
NoOutcome == [type |-> "none", kind |-> "none", value |-> None]

\* A handler that swallows the failure and returns an empty text.
SwallowFailure(exc, matches) ==
    [outcome |-> Return("text", EmptyStr),
     logs |-> IF matches THEN {} ELSE {"error: LiteLLM call failed"},
     invoked |-> <<>>]

\* except Exception as e (lines 307-314): log unless the message matches the
\* context-length signature, then re-raise.
ExceptHandler(exc, matches) ==
    [outcome |-> Raise(exc),
     logs |-> IF matches THEN {} ELSE {"error: LiteLLM call failed"},
     invoked |-> <<>>]

\* tool_call = tool_calls[0]
FirstToolCall(tool_calls) == tool_calls[1]

\* A router that returns None when the message has no content.
TextOrNone(content) == content

\* text_response = response_message.content or ""
TextResponse(content) == PyOr(content, EmptyStr)

\* Lines 263-305: route the response; a json.loads TypeError is not a
\* JSONDecodeError and reaches the outer handler with a message that is no
\* context-length message.
RouteResponse(resp, fns, beh) ==
    LET text == TextResponse(resp.content)
        plain(logs) == [outcome |-> Return("text", text), logs |-> logs, invoked |-> <<>>]
    IN  IF resp.tool_calls = <<>> \/ ~TruthyTable(fns) THEN plain({})
        ELSE LET tool_call == FirstToolCall(resp.tool_calls)
                 decoded == JsonLoads(tool_call.arguments)
             IN  IF tool_call.name \notin fns.keys
                 THEN plain({"warning: unknown function"})
                 ELSE IF decoded.exc = "JSONDecodeError"
                 THEN plain({"warning: failed to parse function arguments"})
                 ELSE IF decoded.exc # NoExc
                 THEN ExceptHandler(decoded.exc, FALSE)
                 ELSE IF ~IsMapping(decoded.value)
                 THEN plain({"error: executing function"})
                 ELSE LET call(result, printed) == <<[name |-> tool_call.name,
                                                        args |-> decoded.value,
                                                        result |-> result,
                                                        printed |-> printed]>>
                      IN  IF beh.raises
                          THEN [outcome |-> Return("text", text),
                                logs |-> {"error: executing function"},
                                invoked |-> call(Raise("Exception"), FALSE)]
                          ELSE IF beh.printRaises
                          THEN [outcome |-> Return("text", text),
                                logs |-> {"error: executing function"},
                                invoked |-> call(Return("tool", beh.value), FALSE)]
                          ELSE [outcome |-> Return("tool", beh.value),
                                logs |-> {},
                                invoked |-> call(Return("tool", beh.value), TRUE)]

----------------------------------------------------------------------------
(* The parts of the state a specification leaves alone *)

NotCalled == <<>>

Threads == {1, 2}

NoCall == [
    thread |-> 0, op |-> "none", override |-> <<>>, requests |-> <<>>,
    providerRaised |-> FALSE, failure |-> NoFailure,
    responded |-> FALSE, resp |-> NoResponse, fns |-> NoFunctions,
    outcome |-> NoOutcome, invoked |-> <<>>, logs |-> {} ]

CtxIdle ==
    /\ context_window_size = 0
    /\ ctxReturned = NotCalled
    /\ window_sizes = LLM_CONTEXT_WINDOW_SIZES
    /\ ctxLog = <<>>
    /\ ctxPc = [t \in Threads |-> "idle"]
    /\ ctxIdx = [t \in Threads |-> 0]

ParamsIdle == params = <<>> /\ callArgs = <<>> /\ built = FALSE

NoRestore == [data |-> <<>>, outcome |-> NoOutcome]

DictIdle == serialized = <<>> /\ restored = NoRestore

\* The original streams are in place; no FilteredStream exists.
Original == <<>>

NoWrite == [stream |-> "none", todo |-> <<>>, held |-> <<>>]

SinkIdle ==
    /\ sys_stdout = Original
    /\ sys_stderr = Original
    /\ old_stdout = [t \in Threads |-> Original]
    /\ old_stderr = [t \in Threads |-> Original]
    /\ wrapperId = [t \in Threads |-> 0]
    /\ created = 0
    /\ writing = [t \in Threads |-> NoWrite]
    /\ ending = [t \in Threads |-> NoCall]
    /\ before = [t \in Threads |-> [out |-> Original, err |-> Original]]
    /\ overlap = [t \in Threads |-> FALSE]

\* litellm's lists are empty when the module is imported; no thread has
\* started an operation.
CallIdle ==
    /\ callbacks = <<>>
    /\ success_callback = <<>>
    /\ async_success_callback = <<>>
    /\ failure_callback = <<>>
    /\ pc = [t \in Threads |-> "idle"]
    /\ op = [t \in Threads |-> "none"]
    /\ cbs = [t \in Threads |-> <<>>]
    /\ snap = [t \in Threads |-> <<>>]
    /\ last = NoCall
    /\ SinkIdle

----------------------------------------------------------------------------
(* SpecCtx: get_context_window_size on clients of every model name *)

InitCtx ==
    /\ llm \in {NewLLM(m, None, {}, {}) : m \in ModelNames}
    /\ CtxIdle
    /\ ParamsIdle
    /\ DictIdle
    /\ environ = [success |-> <<>>, failure |-> <<>>]
    /\ CallIdle

MaxCtxCalls == 2

\* The whole method in one step. The log keeps, for each call, the table as
\* it was, whether the call went over it, and what the call returned.
GetContextWindowSize ==
    /\ Len(ctxLog) < MaxCtxCalls
    /\ IF Cached(context_window_size)
       THEN /\ ctxReturned' = <<context_window_size>>
            /\ ctxLog' = Append(ctxLog, [table |-> window_sizes, scanned |-> FALSE,
                                         returned |-> context_window_size])
            /\ UNCHANGED context_window_size
       ELSE /\ context_window_size' = ComputeWindow(llm["model"])
            /\ ctxReturned' = <<ComputeWindow(llm["model"])>>
            /\ ctxLog' = Append(ctxLog, [table |-> window_sizes, scanned |-> TRUE,
                                         returned |-> ComputeWindow(llm["model"])])
    /\ UNCHANGED <<llm, dictVars, window_sizes, ctxPc, ctxIdx, paramVars, callVars>>

NextCtx == GetContextWindowSize

SpecCtx == InitCtx /\ [][NextCtx]_vars

----------------------------------------------------------------------------
(* SpecTable: get_context_window_size while the table is being changed *)

\* LLM_CONTEXT_WINDOW_SIZES is a module-level dict that any importer can
\* change. The contents taken here: the declared table; a short key "gpt-"
\* inserted after every other key; "gpt-4" deleted and inserted again, which
\* moves it behind its longer relatives; another capacity for "gpt-4o"; and
\* the cleared dict.
ShortKeyLast ==
    Append(LLM_CONTEXT_WINDOW_SIZES, [key |-> <<"g", "p", "t", "-">>, value |-> 1000])

Gpt4Last ==
    Append(Tail(LLM_CONTEXT_WINDOW_SIZES), Head(LLM_CONTEXT_WINDOW_SIZES))

Gpt4oChanged ==
    [i \in 1..Len(LLM_CONTEXT_WINDOW_SIZES) |->
        IF LLM_CONTEXT_WINDOW_SIZES[i].key = Gpt4o
        THEN [key |-> Gpt4o, value |-> 64000]
        ELSE LLM_CONTEXT_WINDOW_SIZES[i]]

Tables == {LLM_CONTEXT_WINDOW_SIZES, ShortKeyLast, Gpt4Last, Gpt4oChanged, <<>>}

MutateTable ==
    /\ window_sizes' \in Tables \ {window_sizes}
    /\ UNCHANGED <<llm, dictVars, context_window_size, ctxReturned, ctxLog, ctxPc, ctxIdx,
                   paramVars, callVars>>

NextTable ==
    \/ GetContextWindowSize
    \/ MutateTable

SpecTable == InitCtx /\ [][NextTable]_vars

----------------------------------------------------------------------------
(* SpecCtxThreads: get_context_window_size on one client from two threads *)

\* The model names of the shared client: a key behind two of its prefixes, a
\* key with no other matching key, and a name no key matches.
SharedModels == {
    <<"g", "p", "t", "-", "4", "o", "-", "m", "i", "n", "i">>,
    <<"o", "1", "-", "m", "i", "n", "i">>,
    <<"c", "l", "a", "u", "d", "e", "-", "3">> }

InitCtxThreads ==
    /\ llm \in {NewLLM(m, None, {}, {}) : m \in SharedModels}
    /\ CtxIdle
    /\ ParamsIdle
    /\ DictIdle
    /\ environ = [success |-> <<>>, failure |-> <<>>]
    /\ CallIdle

CtxCallsBegun ==
    Len(ctxLog) + Cardinality({t \in Threads : ctxPc[t] # "idle"})

\* Line 337: the test of the cache.
CheckCache(t) ==
    /\ ctxPc[t] = "idle"
    /\ CtxCallsBegun < MaxCtxCalls
    /\ ctxPc' = [ctxPc EXCEPT ![t] =
                    IF Cached(context_window_size) THEN "return_cached"
                    ELSE "write_default"]
    /\ UNCHANGED <<llm, dictVars, context_window_size, ctxReturned, window_sizes, ctxLog,
                   ctxIdx, paramVars, callVars>>

\* Lines 338 and 346: return self.context_window_size, read at that moment.
ReturnWindow(t) ==
    /\ ctxPc[t] \in {"return_cached", "return_scanned"}
    /\ ctxReturned' = <<context_window_size>>
    /\ ctxLog' = Append(ctxLog, [table |-> window_sizes,
                                 scanned |-> ctxPc[t] = "return_scanned",
                                 returned |-> context_window_size])
    /\ ctxPc' = [ctxPc EXCEPT ![t] = "idle"]
    /\ ctxIdx' = [ctxIdx EXCEPT ![t] = 0]
    /\ UNCHANGED <<llm, dictVars, context_window_size, window_sizes, paramVars, callVars>>

\* Lines 340-342: the default goes into the cache before the loop starts.
WriteDefault(t) ==
    /\ ctxPc[t] = "write_default"
    /\ context_window_size' = Scaled(DEFAULT_CONTEXT_WINDOW_SIZE)
    /\ ctxPc' = [ctxPc EXCEPT ![t] = "scan"]
    /\ ctxIdx' = [ctxIdx EXCEPT ![t] = 1]
    /\ UNCHANGED <<llm, dictVars, ctxReturned, window_sizes, ctxLog, paramVars, callVars>>

\* Lines 343-345: one iteration; a matching key's budget goes into the cache.
ScanEntry(t) ==
    /\ ctxPc[t] = "scan"
    /\ IF ctxIdx[t] > Len(window_sizes)
       THEN /\ ctxPc' = [ctxPc EXCEPT ![t] = "return_scanned"]
            /\ UNCHANGED <<context_window_size, ctxIdx>>
       ELSE /\ context_window_size' =
                   ScanStep(llm["model"], ctxIdx[t], context_window_size)
            /\ ctxIdx' = [ctxIdx EXCEPT ![t] = ctxIdx[t] + 1]
            /\ UNCHANGED ctxPc
    /\ UNCHANGED <<llm, dictVars, ctxReturned, window_sizes, ctxLog, paramVars, callVars>>

NextCtxThreads ==
    \E t \in Threads :
        \/ CheckCache(t)
        \/ ReturnWindow(t)
        \/ WriteDefault(t)
        \/ ScanEntry(t)

SpecCtxThreads == InitCtxThreads /\ [][NextCtxThreads]_vars

----------------------------------------------------------------------------
(* SpecParams: the request builder on clients of every configuration *)

MaxSetFields == 2

\* Clients with at most MaxSetFields optional fields set, each set field
\* either to a falsy or to a truthy value.
InitParams ==
    /\ llm \in UNION {{NewLLM(Gpt4o, None, S, T) : T \in SUBSET S} :
                        S \in {X \in SUBSET OptionalFields :
                                  Cardinality(X) <= MaxSetFields}}
    /\ CtxIdle
    /\ ParamsIdle
    /\ DictIdle
    /\ environ = [success |-> <<>>, failure |-> <<>>]
    /\ CallIdle

\* Lines 236-260 of LLM.call for one choice of messages and tools.
BuildRequest ==
    /\ \E messages \in MessagesChoices, tools \in ToolsChoices :
          /\ callArgs' = [messages |-> messages, tools |-> tools]
          /\ params' = BuildParams(llm, messages, tools)
    /\ built' = TRUE
    /\ UNCHANGED <<llm, dictVars, ctxVars, callVars>>

NextParams == BuildRequest

SpecParams == InitParams /\ [][NextParams]_vars

----------------------------------------------------------------------------
(* SpecDict: to_dict and from_dict on clients of every configuration *)

\* to_dict: one entry per constructor field, holding the field's value.
ToDict(client) == [f \in ConfigFields |-> client[f]]

\* A pop that ignores the dict and always takes the default.
PopDefault(data, key) == None

\* data.pop(key, None)
Pop(data, key) == IF key \in DOMAIN data THEN data[key] ELSE None

\* known_fields after the nineteen pops, and the keys left in data.
KnownFields(data) == [f \in ConfigFields |-> Pop(data, f)]

ExtraKeys(data) == DOMAIN data \ ConfigFields

\* One thread's set_callbacks from start to end: every hook of an incoming
\* kind is gone from the list.
WithoutKinds(list, kinds) ==
    LET Keep(cb) == Kind(cb) \notin kinds
    IN  SelectSeq(list, Keep)

\* What from_dict can be given: the dict to_dict returned, that dict with one
\* key missing, and that dict with a key the constructor does not know.
DroppedKeys == {"model", "callbacks", "max_tokens"}

DictChoices ==
    {serialized}
        \cup {[f \in ConfigFields \ {k} |-> serialized[f]] : k \in DroppedKeys}
        \cup {[f \in ConfigFields \cup {"organization"} |->
                  IF f \in ConfigFields THEN serialized[f] ELSE <<"str", "org">>]}

InitDict ==
    /\ llm \in UNION {UNION {{NewLLM(Gpt4o, list, S, T) : T \in SUBSET S} :
                                S \in {X \in SUBSET OptionalFields :
                                          Cardinality(X) <= MaxSetFields}} :
                        list \in CallbackLists}
    /\ CtxIdle
    /\ ParamsIdle
    /\ DictIdle
    /\ environ \in EnvChoices
    /\ CallIdle

Serialize ==
    /\ serialized = <<>>
    /\ serialized' = ToDict(llm)
    /\ UNCHANGED <<llm, ctxVars, paramVars, restored, callVars>>

\* from_dict(data): the pops, then the constructor with the popped fields and
\* whatever is left in data. The constructor takes no unknown keyword
\* (TypeError before its body runs). A dict without "callbacks" hands it
\* callbacks=None, which set_callbacks cannot iterate (TypeError at line 353;
\* the dicts taken here hold a list under "callbacks" whenever they have the
\* key). Otherwise the constructor stores the fields, re-registers the
\* callbacks and reads the environment lists.
Restore ==
    /\ serialized # <<>>
    /\ restored = NoRestore
    /\ \E data \in DictChoices :
          IF ExtraKeys(data) # {} \/ "callbacks" \notin DOMAIN data
          THEN /\ restored' = [data |-> data, outcome |-> Raise("TypeError")]
               /\ UNCHANGED registryVars
          ELSE LET client == KnownFields(data)
                   kinds == Kinds(client["callbacks"])
               IN  /\ restored' = [data |-> data, outcome |-> Return("client", client)]
                   /\ callbacks' = client["callbacks"]
                   /\ success_callback' = ParseCallbackNames(environ.success)
                   /\ async_success_callback' = WithoutKinds(async_success_callback, kinds)
                   /\ failure_callback' = ParseCallbackNames(environ.failure)
    /\ UNCHANGED <<llm, ctxVars, paramVars, serialized, environ, threadVars, last, sinkVars>>

NextDict ==
    \/ Serialize
    \/ Restore

SpecDict == InitDict /\ [][NextDict]_vars

----------------------------------------------------------------------------
(* Spec and SpecThreads: LLM.__init__ and LLM.call, step by step *)

\* The operation of thread t ends: its record becomes `last`, and the thread
\* is idle again.
EndOperation(t, record) ==
    /\ last' = [record EXCEPT !.thread = t, !.op = op[t], !.override = cbs[t]]
    /\ pc' = [pc EXCEPT ![t] = "idle"]
    /\ op' = [op EXCEPT ![t] = "none"]
    /\ cbs' = [cbs EXCEPT ![t] = <<>>]
    /\ snap' = [snap EXCEPT ![t] = <<>>]

\* set_callbacks begins (lines 353-354): the first loop iterates over a copy
\* of litellm.success_callback.
EnterSetCallbacks(t, list) ==
    /\ cbs' = [cbs EXCEPT ![t] = list]
    /\ snap' = [snap EXCEPT ![t] = success_callback]
    /\ pc' = [pc EXCEPT ![t] = "sc_success"]

\* LLM(model, callbacks=list): __init__ stores the fields and calls
\* set_callbacks(callbacks).
StartInit(t, lists) ==
    /\ pc[t] = "idle"
    /\ \E list \in lists : EnterSetCallbacks(t, list)
    /\ op' = [op EXCEPT ![t] = "init"]
    /\ last' = NoCall
    /\ UNCHANGED <<llm, dictVars, ctxVars, paramVars, sinkVars, environ, registryVars>>

\* llm.call(messages, tools, callbacks=list, available_functions): a truthy
\* callbacks override goes through set_callbacks first (lines 231-232).
StartCall(t, lists) ==
    /\ pc[t] = "idle"
    /\ \E list \in lists :
          IF list # <<>>
          THEN EnterSetCallbacks(t, list)
          ELSE /\ pc' = [pc EXCEPT ![t] = "request"]
               /\ UNCHANGED <<cbs, snap>>
    /\ op' = [op EXCEPT ![t] = "call"]
    /\ last' = NoCall
    /\ UNCHANGED <<llm, dictVars, ctxVars, paramVars, sinkVars, environ, registryVars>>

\* if type(callback) in callback_types: list.remove(callback)
\* list.remove raises ValueError when the hook is no longer in the list.
RemoveHook(t, list, cb) ==
    IF Kind(cb) \notin Kinds(cbs[t]) THEN [raised |-> FALSE, list |-> list]
    ELSE IF Contains(list, cb) THEN [raised |-> FALSE, list |-> Remove(list, cb)]
    ELSE [raised |-> TRUE, list |-> list]

\* One iteration of the loop over the copy of litellm.success_callback
\* (lines 354-356); after the last one the second loop copies
\* litellm._async_success_callback (line 358).
RemoveSuccess(t) ==
    /\ pc[t] = "sc_success"
    /\ IF snap[t] = <<>>
       THEN /\ snap' = [snap EXCEPT ![t] = async_success_callback]
            /\ pc' = [pc EXCEPT ![t] = "sc_async"]
            /\ UNCHANGED <<success_callback, op, cbs, last>>
       ELSE LET r == RemoveHook(t, success_callback, Head(snap[t]))
            IN  IF r.raised
                THEN /\ EndOperation(t, [NoCall EXCEPT !.outcome = Raise("ValueError")])
                     /\ UNCHANGED success_callback
                ELSE /\ success_callback' = r.list
                     /\ snap' = [snap EXCEPT ![t] = Tail(snap[t])]
                     /\ UNCHANGED <<pc, op, cbs, last>>
    /\ UNCHANGED <<llm, dictVars, ctxVars, paramVars, sinkVars, environ, callbacks,
                   async_success_callback, failure_callback>>

\* One iteration of the loop over the copy of litellm._async_success_callback
\* (lines 358-360).
RemoveAsync(t) ==
    /\ pc[t] = "sc_async"
    /\ IF snap[t] = <<>>
       THEN /\ pc' = [pc EXCEPT ![t] = "sc_assign"]
            /\ UNCHANGED <<async_success_callback, op, cbs, snap, last>>
       ELSE LET r == RemoveHook(t, async_success_callback, Head(snap[t]))
            IN  IF r.raised
                THEN /\ EndOperation(t, [NoCall EXCEPT !.outcome = Raise("ValueError")])
                     /\ UNCHANGED async_success_callback
                ELSE /\ async_success_callback' = r.list
                     /\ snap' = [snap EXCEPT ![t] = Tail(snap[t])]
                     /\ UNCHANGED <<pc, op, cbs, last>>
    /\ UNCHANGED <<llm, dictVars, ctxVars, paramVars, sinkVars, environ, callbacks,
                   success_callback, failure_callback>>

\* litellm.callbacks = callbacks (line 362); __init__ goes on to
\* set_env_callbacks, call to the request.
AssignCallbacks(t) ==
    /\ pc[t] = "sc_assign"
    /\ callbacks' = cbs[t]
    /\ pc' = [pc EXCEPT ![t] = IF op[t] = "init" THEN "env" ELSE "request"]
    /\ UNCHANGED <<llm, dictVars, ctxVars, paramVars, sinkVars, environ, success_callback,
                   async_success_callback, failure_callback, op, cbs, snap, last>>

\* set_env_callbacks (lines 364-383), the last statement of __init__.
SetEnvCallbacks(t) ==
    /\ pc[t] = "env"
    /\ success_callback' = ParseCallbackNames(environ.success)
    /\ failure_callback' = ParseCallbackNames(environ.failure)
    /\ EndOperation(t, [NoCall EXCEPT !.outcome = Return("none", None)])
    /\ UNCHANGED <<llm, dictVars, ctxVars, paramVars, sinkVars, environ, callbacks, async_success_callback>>

\* The arguments of the calls of these specifications.
CallMessages == OneMessage
CallTools == <<"list", "[{'type': 'function'}]">>

\* Lines 236-262: build the parameters and call litellm.completion, which
\* registers litellm.callbacks in the hook lists and then fails or answers.
\* A failure ends the call in the handler of lines 307-314.
Request(t) ==
    /\ pc[t] = "request"
    /\ success_callback' = AppendMissing(success_callback, callbacks)
    /\ async_success_callback' = AppendMissing(async_success_callback, callbacks)
    /\ failure_callback' = AppendMissing(failure_callback, callbacks)
    /\ \/ \E f \in ProviderFailures :
             LET h == ExceptHandler("ProviderError", f.matchesContextLimit)
             IN  EndOperation(t, [NoCall EXCEPT
                     !.requests = <<BuildParams(llm, CallMessages, CallTools)>>,
                     !.providerRaised = TRUE, !.failure = f,
                     !.outcome = h.outcome, !.logs = h.logs, !.invoked = h.invoked])
       \/ /\ pc' = [pc EXCEPT ![t] = "route"]
          /\ UNCHANGED <<op, cbs, snap, last>>
    /\ UNCHANGED <<llm, dictVars, ctxVars, paramVars, sinkVars, environ, callbacks>>

\* Lines 263-305 on the response the provider gave, with the function table
\* of the call and what the tool function does when it is called.
Route(t, responses, tables, behaviours) ==
    /\ pc[t] = "route"
    /\ \E resp \in responses, fns \in tables, beh \in behaviours :
          LET r == RouteResponse(resp, fns, beh)
          IN  EndOperation(t, [NoCall EXCEPT
                  !.requests = <<BuildParams(llm, CallMessages, CallTools)>>,
                  !.responded = TRUE, !.resp = resp, !.fns = fns,
                  !.outcome = r.outcome, !.logs = r.logs, !.invoked = r.invoked])
    /\ UNCHANGED <<llm, dictVars, ctxVars, paramVars, sinkVars, environ, registryVars>>

InitCall ==
    /\ llm = NewLLM(Gpt4o, None, {}, {})
    /\ CtxIdle
    /\ ParamsIdle
    /\ DictIdle
    /\ environ \in EnvChoices
    /\ CallIdle

\* One client used from one thread: every response, function table and tool
\* behaviour.
Next ==
    \/ StartInit(1, CallbackLists)
    \/ StartCall(1, CallbackLists)
    \/ RemoveSuccess(1)
    \/ RemoveAsync(1)
    \/ AssignCallbacks(1)
    \/ SetEnvCallbacks(1)
    \/ Request(1)
    \/ Route(1, Responses, FunctionTables, ToolBehaviours)

Spec == InitCall /\ [][Next]_vars

\* The responses of the two-thread specification: a text, and a tool call.
ThreadResponses == {
    [content |-> <<"str", "hi">>, tool_calls |-> <<>>],
    [content |-> None, tool_calls |-> <<[name |-> "f", arguments |-> ArgsObject]>>] }
ThreadTables == {[isNone |-> FALSE, keys |-> {"f"}]}
ThreadBehaviours == {[raises |-> FALSE, value |-> <<"int", "42">>, printRaises |-> FALSE]}

\* The two clients have distinct callback sets: [A1, B1] on thread 1, [A2]
\* on thread 2; either may also be built or called without callbacks.
ThreadCallbacks(t) ==
    IF t = 1 THEN {<<>>, <<<<"A", "1">>, <<"B", "1">>>>}
    ELSE {<<>>, <<<<"A", "2">>>>}

InitThreads ==
    /\ llm = NewLLM(Gpt4o, None, {}, {})
    /\ CtxIdle
    /\ ParamsIdle
    /\ DictIdle
    /\ environ = [success |-> <<"s", "1">>, failure |-> <<>>]
    /\ CallIdle

\* Two clients, each used from its own thread; the threads interleave at
\* every step.
NextThreads ==
    \E t \in Threads :
        \/ StartInit(t, ThreadCallbacks(t))
        \/ StartCall(t, ThreadCallbacks(t))
        \/ RemoveSuccess(t)
        \/ RemoveAsync(t)
        \/ AssignCallbacks(t)
        \/ SetEnvCallbacks(t)
        \/ Request(t)
        \/ Route(t, ThreadResponses, ThreadTables, ThreadBehaviours)

SpecThreads == InitThreads /\ [][NextThreads]_vars

----------------------------------------------------------------------------
(* SpecSinks: suppress_warnings around LLM.call, statement by statement *)

MaxWrappers == 3

\* FilteredStream(old): a new object with a lock of its own around old.
FilteredStream(id, old) == <<id>> \o old

\* A with-statement whose exit code runs only when the block returns.
RestoredOnReturn(outcome, old, current) ==
    IF outcome.type = "raise" THEN current ELSE old

\* try: yield / finally: sys.stdout = old_stdout (lines 96-100): the exit
\* code runs however the block ended.
RestoredFinally(outcome, old, current) == old

InFlight(t) == pc[t] # "idle"

\* The locks thread t holds: one per FilteredStream it has entered.
HeldLocks(t) ==
    {<<writing[t].stream, writing[t].held[i]>> : i \in DOMAIN writing[t].held}

LockFree(stream, id) == \A t \in Threads : <<stream, id>> \notin HeldLocks(t)

\* The calls of this specification: thread 1 overrides the callbacks, thread
\* 2 does not; the tool function returns, or it raises.
SinkCallbacks(t) == IF t = 1 THEN {<<<<"A", "1">>>>} ELSE {<<>>}

SinkBehaviours ==
    {b \in ToolBehaviours : b.raises \/ (b.value = <<"int", "42">> /\ ~b.printRaises)}

SinkFailures == {f \in ProviderFailures : ~f.matchesContextLimit}

\* llm.call(..., callbacks=list) begins: suppress_warnings reads sys.stdout
\* (line 92).
QuietCall(t) ==
    /\ pc[t] = "idle"
    /\ created < MaxWrappers
    /\ created' = created + 1
    /\ wrapperId' = [wrapperId EXCEPT ![t] = created + 1]
    /\ \E list \in SinkCallbacks(t) : cbs' = [cbs EXCEPT ![t] = list]
    /\ op' = [op EXCEPT ![t] = "call"]
    /\ pc' = [pc EXCEPT ![t] = "read_stderr"]
    /\ old_stdout' = [old_stdout EXCEPT ![t] = sys_stdout]
    /\ before' = [u \in Threads |->
                     IF u = t THEN [out |-> sys_stdout, err |-> sys_stderr]
                     ELSE IF InFlight(u) THEN before[u]
                     ELSE [out |-> Original, err |-> Original]]
    /\ overlap' = [u \in Threads |->
                      IF u = t THEN \E v \in Threads \ {t} : InFlight(v)
                      ELSE InFlight(u)]
    /\ last' = NoCall
    /\ UNCHANGED <<llm, dictVars, ctxVars, paramVars, environ, registryVars, snap,
                   sys_stdout, sys_stderr, old_stderr, writing, ending>>

\* old_stderr = sys.stderr (line 93)
ReadStderr(t) ==
    /\ pc[t] = "read_stderr"
    /\ old_stderr' = [old_stderr EXCEPT ![t] = sys_stderr]
    /\ pc' = [pc EXCEPT ![t] = "set_stdout"]
    /\ UNCHANGED <<llm, dictVars, ctxVars, paramVars, environ, registryVars, op, cbs,
                   snap, last, sys_stdout, sys_stderr, old_stdout, wrapperId, created,
                   writing, ending, before, overlap>>

\* sys.stdout = FilteredStream(old_stdout) (line 94)
SetStdout(t) ==
    /\ pc[t] = "set_stdout"
    /\ sys_stdout' = FilteredStream(wrapperId[t], old_stdout[t])
    /\ pc' = [pc EXCEPT ![t] = "set_stderr"]
    /\ UNCHANGED <<llm, dictVars, ctxVars, paramVars, environ, registryVars, op, cbs,
                   snap, last, sys_stderr, old_stdout, old_stderr, wrapperId, created,
                   writing, ending, before, overlap>>

\* sys.stderr = FilteredStream(old_stderr) (line 95); the with-block follows.
SetStderr(t) ==
    /\ pc[t] = "set_stderr"
    /\ sys_stderr' = FilteredStream(wrapperId[t], old_stderr[t])
    /\ pc' = [pc EXCEPT ![t] = "body"]
    /\ UNCHANGED <<llm, dictVars, ctxVars, paramVars, environ, registryVars, op, cbs,
                   snap, last, sys_stdout, old_stdout, old_stderr, wrapperId, created,
                   writing, ending, before, overlap>>

\* Inside the with-block something is written (the print of line 290, the
\* provider library's notices, a log record): the writer takes whatever
\* sys.stdout or sys.stderr is at that moment.
BeginWrite(t) ==
    /\ pc[t] = "body"
    /\ writing[t] = NoWrite
    /\ \E stream \in {"stdout", "stderr"} :
          writing' = [writing EXCEPT ![t] =
              [stream |-> stream,
               todo |-> IF stream = "stdout" THEN sys_stdout ELSE sys_stderr,
               held |-> <<>>]]
    /\ UNCHANGED <<llm, dictVars, ctxVars, paramVars, environ, registryVars, threadVars,
                   last, sys_stdout, sys_stderr, old_stdout, old_stderr, wrapperId,
                   created, ending, before, overlap>>

\* FilteredStream.write (lines 32-42): take this wrapper's lock; a text that
\* holds one of the two notices is dropped (the write returns 0 and every
\* lock taken for it is released); any other text goes on to the wrapped
\* stream's write with the lock held.
EnterFilter(t) ==
    /\ writing[t].stream # "none"
    /\ writing[t].todo # <<>>
    /\ LockFree(writing[t].stream, Head(writing[t].todo))
    /\ \E notice \in BOOLEAN :
          writing' = [writing EXCEPT ![t] =
              IF notice THEN NoWrite
              ELSE [writing[t] EXCEPT
                       !.todo = Tail(writing[t].todo),
                       !.held = Append(writing[t].held, Head(writing[t].todo))]]
    /\ UNCHANGED <<llm, dictVars, ctxVars, paramVars, environ, registryVars, threadVars,
                   last, sys_stdout, sys_stderr, old_stdout, old_stderr, wrapperId,
                   created, ending, before, overlap>>

\* The thread is inside the original stream's write.
InOriginalWrite(t) == writing[t].stream # "none" /\ writing[t].todo = <<>>

\* The original stream's write returns, and so does every wrapper's,
\* releasing its lock.
EndWrite(t) ==
    /\ InOriginalWrite(t)
    /\ writing' = [writing EXCEPT ![t] = NoWrite]
    /\ UNCHANGED <<llm, dictVars, ctxVars, paramVars, environ, registryVars, threadVars,
                   last, sys_stdout, sys_stderr, old_stdout, old_stderr, wrapperId,
                   created, ending, before, overlap>>

\* The with-block of LLM.call (lines 231-314) in one step: set_callbacks for
\* a truthy override, the request with the library's registration, then the
\* failure handler or the routing of the response. set_callbacks can also
\* raise ValueError when a hook of an incoming kind that was registered has
\* been removed by another thread's constructor in between (SpecThreads).
QuietBody(t) ==
    /\ pc[t] = "body"
    /\ writing[t] = NoWrite
    /\ pc' = [pc EXCEPT ![t] = "restore_stdout"]
    /\ LET list == cbs[t]
           kinds == Kinds(list)
           installed == IF list # <<>> THEN list ELSE callbacks
           request == <<BuildParams(llm, CallMessages, CallTools)>>
       IN  \/ /\ kinds \cap Kinds(success_callback \o async_success_callback) # {}
              /\ ending' = [ending EXCEPT ![t] =
                                [NoCall EXCEPT !.outcome = Raise("ValueError")]]
              /\ UNCHANGED registryVars
           \/ /\ callbacks' = installed
              /\ success_callback' =
                     AppendMissing(WithoutKinds(success_callback, kinds), installed)
              /\ async_success_callback' =
                     AppendMissing(WithoutKinds(async_success_callback, kinds), installed)
              /\ failure_callback' = AppendMissing(failure_callback, installed)
              /\ \/ \E f \in SinkFailures :
                       LET h == ExceptHandler("ProviderError", f.matchesContextLimit)
                       IN  ending' = [ending EXCEPT ![t] = [NoCall EXCEPT
                               !.requests = request, !.providerRaised = TRUE,
                               !.failure = f, !.outcome = h.outcome, !.logs = h.logs,
                               !.invoked = h.invoked]]
                 \/ \E resp \in ThreadResponses, fns \in ThreadTables,
                          beh \in SinkBehaviours :
                       LET r == RouteResponse(resp, fns, beh)
                       IN  ending' = [ending EXCEPT ![t] = [NoCall EXCEPT
                               !.requests = request, !.responded = TRUE,
                               !.resp = resp, !.fns = fns, !.outcome = r.outcome,
                               !.logs = r.logs, !.invoked = r.invoked]]
    /\ UNCHANGED <<llm, dictVars, ctxVars, paramVars, environ, op, cbs, snap, last,
                   sys_stdout, sys_stderr, old_stdout, old_stderr, wrapperId, created,
                   writing, before, overlap>>

\* sys.stdout = old_stdout (line 99)
RestoreStdout(t) ==
    /\ pc[t] = "restore_stdout"
    /\ sys_stdout' = RestoredFinally(ending[t].outcome, old_stdout[t], sys_stdout)
    /\ pc' = [pc EXCEPT ![t] = "restore_stderr"]
    /\ UNCHANGED <<llm, dictVars, ctxVars, paramVars, environ, registryVars, op, cbs,
                   snap, last, sys_stderr, old_stdout, old_stderr, wrapperId, created,
                   writing, ending, before, overlap>>

\* sys.stderr = old_stderr (line 100); the call returns or raises, and its
\* locals are gone.
RestoreStderr(t) ==
    /\ pc[t] = "restore_stderr"
    /\ sys_stderr' = RestoredFinally(ending[t].outcome, old_stderr[t], sys_stderr)
    /\ EndOperation(t, ending[t])
    /\ ending' = [ending EXCEPT ![t] = NoCall]
    /\ old_stdout' = [old_stdout EXCEPT ![t] = Original]
    /\ old_stderr' = [old_stderr EXCEPT ![t] = Original]
    /\ wrapperId' = [wrapperId EXCEPT ![t] = 0]
    /\ UNCHANGED <<llm, dictVars, ctxVars, paramVars, environ, registryVars,
                   sys_stdout, created, writing, before, overlap>>

\* Calls on one client from two threads, interleaved at every statement of
\* suppress_warnings and at every lock.
NextSinks ==
    \E t \in Threads :
        \/ QuietCall(t)
        \/ ReadStderr(t)
        \/ SetStdout(t)
        \/ SetStderr(t)
        \/ BeginWrite(t)
        \/ EnterFilter(t)
        \/ EndWrite(t)
        \/ QuietBody(t)
        \/ RestoreStdout(t)
        \/ RestoreStderr(t)

SpecSinks == InitThreads /\ [][NextSinks]_vars

----------------------------------------------------------------------------
(* Properties of the context-window budget, under SpecCtx *)

NoKeyIsPrefix(model) ==
    \A i \in DOMAIN LLM_CONTEXT_WINDOW_SIZES :
        ~StartsWith(model, LLM_CONTEXT_WINDOW_SIZES[i].key)

\* C10: for a model name equal to a key of the table, get_context_window_size
\* returns floor(0.75 * that key's capacity); for a model name that no key of
\* the table is a prefix of, it returns 6144.
C10_ExactKeyAndDefault ==
    ctxReturned # NotCalled =>
        /\ \A i \in DOMAIN LLM_CONTEXT_WINDOW_SIZES :
              llm["model"] = LLM_CONTEXT_WINDOW_SIZES[i].key =>
                  /\ 4 * ctxReturned[1] <= 3 * LLM_CONTEXT_WINDOW_SIZES[i].value
                  /\ 3 * LLM_CONTEXT_WINDOW_SIZES[i].value < 4 * (ctxReturned[1] + 1)
        /\ NoKeyIsPrefix(llm["model"]) => ctxReturned[1] = 6144

\* C10 witness: the budget of "gpt-4o-mini", a key that two earlier keys are
\* prefixes of, has been returned and is 96000.
C10_Witness ==
    /\ ctxReturned = <<96000>>
    /\ llm["model"] = <<"g", "p", "t", "-", "4", "o", "-", "m", "i", "n", "i">>

----------------------------------------------------------------------------
(* Properties of the request parameters, under SpecParams *)

\* Whether the value a parameter key carries was given: by the caller for
\* messages and tools, by the configuration otherwise.
KeySourceSet(k) ==
    CASE k \in {"model", "messages", "stream"} -> TRUE
      [] k = "tools" -> callArgs.tools # None
      [] k = "api_base" -> llm["base_url"] # None
      [] k = "max_tokens" ->
            llm["max_tokens"] # None \/ llm["max_completion_tokens"] # None
      [] OTHER -> llm[k] # None

OnlyModelSet == \A f \in OptionalFields : llm[f] = None

\* C8: no key of the parameter set sent to the provider has the value None or
\* stands for a field that is unset, and a client with only its model set,
\* called with only messages, sends exactly model, messages and stream=False,
\* plus tools exactly when tools was supplied.
C8_NoUnsetKeySent ==
    built =>
        /\ \A k \in DOMAIN params : params[k] # None /\ KeySourceSet(k)
        /\ OnlyModelSet =>
              /\ DOMAIN params =
                    {"model", "messages", "stream"}
                    \cup (IF callArgs.tools # None THEN {"tools"} ELSE {})
              /\ params["model"] = llm["model"]
              /\ params["messages"] = callArgs.messages
              /\ params["stream"] = PyFalse

\* C8 witness: a client with only its model set was called without tools and
\* sent three keys.
C8_Witness ==
    /\ built
    /\ OnlyModelSet
    /\ callArgs.tools = None
    /\ DOMAIN params = {"model", "messages", "stream"}

\* C9: the max_tokens value sent is the client's max_tokens whenever that is
\* set (0 included), and max_completion_tokens only when max_tokens is unset.
C9_MaxTokensPreferred ==
    built =>
        /\ llm["max_tokens"] # None =>
              /\ "max_tokens" \in DOMAIN params
              /\ params["max_tokens"] = llm["max_tokens"]
        /\ (llm["max_tokens"] = None /\ llm["max_completion_tokens"] # None) =>
              /\ "max_tokens" \in DOMAIN params
              /\ params["max_tokens"] = llm["max_completion_tokens"]

----------------------------------------------------------------------------
(* Properties of LLM.call's routing, under Spec *)

\* The call that ended last got a response whose first tool call names a
\* function of the table it was given.
RegisteredToolCall ==
    /\ last.responded
    /\ last.resp.tool_calls # <<>>
    /\ TruthyTable(last.fns)
    /\ last.resp.tool_calls[1].name \in last.fns.keys

\* The arguments of that tool call decode to a mapping.
ArgumentsDecode ==
    LET decoded == JsonLoads(last.resp.tool_calls[1].arguments)
    IN  decoded.exc = NoExc /\ IsMapping(decoded.value)

\* The message text: the content, or the empty string when there is none.
MessageText == IF last.resp.content = None THEN EmptyStr ELSE last.resp.content

\* C1: a call raises only if the provider request raised; whatever else goes
\* wrong after the response (unknown tool, undecodable arguments, tool
\* function raising), the call returns.
C1_OnlyProviderFailureRaises ==
    /\ (last.op = "call" /\ last.outcome.type = "raise") => last.providerRaised
    /\ last.responded => last.outcome.type = "return"

\* C2: when the provider request raises, the call raises that failure, no
\* tool function is invoked, and the error is logged exactly when the failure
\* does not match the context-length signature.
C2_ProviderFailureReraised ==
    last.providerRaised =>
        /\ last.outcome = Raise("ProviderError")
        /\ last.invoked = <<>>
        /\ Len(last.requests) = 1
        /\ ("error: LiteLLM call failed" \in last.logs)
              <=> ~last.failure.matchesContextLimit

\* C2 witness: a provider failure that matches the context-length signature
\* was re-raised without the error log.
C2_Witness ==
    /\ last.providerRaised
    /\ last.failure.matchesContextLimit
    /\ last.outcome.type = "raise"
    /\ last.logs = {}

\* C3: for a registered first tool call with arguments that decode to a
\* mapping, the function is invoked exactly once, with the decoded arguments,
\* no other function is invoked, and what it returns is what the call
\* returns.
C3_ToolResultReturned ==
    (RegisteredToolCall /\ ArgumentsDecode) =>
        /\ Len(last.invoked) = 1
        /\ last.invoked[1].name = last.resp.tool_calls[1].name
        /\ last.invoked[1].args = JsonLoads(last.resp.tool_calls[1].arguments).value
        /\ last.invoked[1].result.type = "return" =>
              last.outcome = Return("tool", last.invoked[1].result.value)

\* C4: without tool calls, without a function table, or with a first tool
\* call that names no function of the table, the call returns the message
\* text and invokes nothing.
C4_TextWhenNothingToDispatch ==
    (/\ last.responded
     /\ \/ last.resp.tool_calls = <<>>
        \/ last.fns.isNone
        \/ last.resp.tool_calls[1].name \notin last.fns.keys) =>
        /\ last.outcome = Return("text", MessageText)
        /\ last.invoked = <<>>

\* C4 witness: a call whose response asked for h, with a table that holds
\* only f and a message without content, returned the empty string.
C4_Witness ==
    /\ last.responded
    /\ last.resp.tool_calls # <<>>
    /\ last.resp.tool_calls[1].name = "h"
    /\ last.fns.keys = {"f"}
    /\ last.resp.content = None
    /\ last.outcome = Return("text", EmptyStr)

\* C5: for a registered first tool call whose payload does not decode to a
\* mapping (malformed text, not text at all, text of another JSON value), the
\* call returns the message text and invokes nothing.
C5_TextWhenArgumentsUndecodable ==
    (RegisteredToolCall /\ ~ArgumentsDecode) =>
        /\ last.outcome = Return("text", MessageText)
        /\ last.invoked = <<>>

----------------------------------------------------------------------------
(* Properties of the callback registry, under Spec and SpecThreads *)

\* Two distinct callback objects of one class in the list.
DuplicateKind(list) ==
    \E i, j \in DOMAIN list :
        /\ i < j
        /\ list[i] \in Handles
        /\ list[j] \in Handles
        /\ Kind(list[i]) = Kind(list[j])

\* C6: after any sequence of installations by one thread, no list of the
\* registry holds two hooks of the same kind.
C6_OneHookPerKind ==
    /\ ~DuplicateKind(callbacks)
    /\ ~DuplicateKind(success_callback)
    /\ ~DuplicateKind(async_success_callback)

InSetCallbacks(t) == pc[t] \in {"sc_success", "sc_async", "sc_assign"}

\* C7: set_callbacks executions of two threads are serialized, and no list of
\* the registry ever holds two hooks of the same kind.
C7_SetCallbacksSerialized ==
    /\ ~(InSetCallbacks(1) /\ InSetCallbacks(2))
    /\ ~DuplicateKind(callbacks)
    /\ ~DuplicateKind(success_callback)
    /\ ~DuplicateKind(async_success_callback)

----------------------------------------------------------------------------
(* Properties of the budget under a changing table, under SpecTable *)

\* The positions of the keys of a table that are prefixes of a model name.
MatchingKeys(table, model) ==
    {i \in 1..Len(table) : StartsWith(model, table[i].key)}

LastOf(positions) == CHOOSE i \in positions : \A j \in positions : j <= i

FirstOf(positions) == CHOOSE i \in positions : \A j \in positions : i <= j

LongestOf(table, positions) ==
    CHOOSE i \in positions :
        \A j \in positions : Len(table[j].key) <= Len(table[i].key)

\* v is floor(0.75 * capacity)
IsScaled(v, capacity) == 4 * v <= 3 * capacity /\ 3 * capacity < 4 * (v + 1)

\* C11: when several keys of the table are each a prefix of the model name, a
\* call that goes over the table returns the scaled capacity of the matching
\* key that comes last in the table's order.
C11_LastMatchingKeyWins ==
    \A n \in 1..Len(ctxLog) :
        LET table == ctxLog[n].table
            matching == MatchingKeys(table, llm["model"])
        IN  (ctxLog[n].scanned /\ Cardinality(matching) >= 2) =>
                IsScaled(ctxLog[n].returned, table[LastOf(matching)].value)

\* C11 witness: a call went over a table in which the last matching key is
\* neither the first nor the longest matching key, and returned a budget that
\* is the scaled capacity of neither of those two.
C11_Witness ==
    /\ Len(ctxLog) >= 1
    /\ ctxLog[1].scanned
    /\ LET table == ctxLog[1].table
           matching == MatchingKeys(table, llm["model"])
       IN  /\ Cardinality(matching) >= 2
           /\ LastOf(matching) # FirstOf(matching)
           /\ LastOf(matching) # LongestOf(table, matching)
           /\ ~IsScaled(ctxLog[1].returned, table[FirstOf(matching)].value)
           /\ ~IsScaled(ctxLog[1].returned, table[LongestOf(table, matching)].value)

\* The budget a scan of the table would give for a model name.
BudgetOf(table, model) ==
    IF MatchingKeys(table, model) = {}
    THEN (3 * DEFAULT_CONTEXT_WINDOW_SIZE) \div 4
    ELSE (3 * table[LastOf(MatchingKeys(table, model))].value) \div 4

\* C12: the second and every later call of get_context_window_size on a
\* client returns what the first call returned and does not go over the
\* table again, whatever the table holds by then.
C12_LaterCallsReturnFirstValue ==
    \A n \in 2..Len(ctxLog) :
        /\ ctxLog[n].returned = ctxLog[1].returned
        /\ ~ctxLog[n].scanned

\* C12 witness: a second call has returned after the table was changed to
\* contents that give the model name another budget than the first call's.
C12_Witness ==
    /\ Len(ctxLog) >= 2
    /\ ctxLog[2].table # ctxLog[1].table
    /\ BudgetOf(ctxLog[2].table, llm["model"]) # ctxLog[1].returned
    /\ ctxLog[2].returned = ctxLog[1].returned

----------------------------------------------------------------------------
(* Properties of serialization, under SpecDict *)

\* C13: from_dict applied to what to_dict returned builds a client that has
\* the original's value in every configuration field: the model, each
\* optional parameter whether set or not, and the callbacks list.
C13_RoundTrip ==
    (restored # NoRestore /\ restored.data = serialized /\ serialized # <<>>) =>
        /\ restored.outcome.type = "return"
        /\ \A f \in ConfigFields : restored.outcome.value[f] = llm[f]

\* C13 witness: a client with callbacks, an optional field set to a falsy
\* value and the other optional fields unset has gone through to_dict and
\* from_dict.
C13_Witness ==
    /\ restored # NoRestore
    /\ restored.data = serialized
    /\ restored.outcome.type = "return"
    /\ llm["callbacks"] # <<>>
    /\ llm["max_tokens"] = Int0
    /\ llm["temperature"] = None
    /\ restored.outcome.value["max_tokens"] = Int0

----------------------------------------------------------------------------
(* Properties of the output sinks, under SpecSinks *)

\* C14: once every call in flight has returned or raised, sys.stdout and
\* sys.stderr are the original streams that were in place before the first
\* call began, not a FilteredStream left behind by one of the calls.
C14_OriginalSinksWhenAllCallsEnded ==
    (\A t \in Threads : ~InFlight(t)) =>
        (sys_stdout = Original /\ sys_stderr = Original)

\* C15: when a call ends during which no other call was in flight, sys.stdout
\* and sys.stderr are what they were when the call began, whether the call
\* returned a text, a tool result or the fallback text, or raised from
\* set_callbacks or from the provider.
C15_SinksRestoredOnEveryExit ==
    (last.op = "call" /\ ~overlap[last.thread]) =>
        /\ sys_stdout = before[last.thread].out
        /\ sys_stderr = before[last.thread].err

\* C15 witness: a call with no other call in flight began with FilteredStreams
\* in place of both streams, raised, and left the same two in place.
C15_Witness ==
    /\ last.op = "call"
    /\ ~overlap[last.thread]
    /\ last.outcome.type = "raise"
    /\ before[last.thread].out # Original
    /\ before[last.thread].err # Original
    /\ sys_stdout = before[last.thread].out
    /\ sys_stderr = before[last.thread].err

\* C16: two threads are never inside the write of the same original stream
\* at once when both got there through FilteredStreams.
C16_WritesSerializedPerSink ==
    \A t, u \in Threads :
        (t # u /\ InOriginalWrite(t) /\ InOriginalWrite(u)
              /\ writing[t].stream = writing[u].stream) =>
            (writing[t].held = <<>> \/ writing[u].held = <<>>)

----------------------------------------------------------------------------
(* Properties of the phases of a call, under SpecThreads *)

\* C17: every call goes from building through dispatching to its end and
\* issues exactly one provider request on the way; with a callbacks override
\* the request is issued after set_callbacks has installed the override.
C17_OneRequestPerCall ==
    /\ last.op = "call" => Len(last.requests) = 1
    /\ \A t \in Threads :
          (op[t] = "call" /\ pc[t] \in {"request", "route"}) => snap[t] = <<>>

----------------------------------------------------------------------------
(* Properties of set_env_callbacks, under Spec *)

\* The handle hooks of a list, in order: what set_callbacks goes through when
\* it removes the hooks of incoming kinds.
HandleHooks(list) ==
    LET IsHandle(cb) == cb \in Handles
    IN  SelectSeq(list, IsHandle)

EnvStep == \E t \in Threads : pc[t] = "env" /\ pc'[t] = "idle"

\* C18: a run of set_env_callbacks leaves litellm.success_callback and
\* litellm.failure_callback holding exactly the trimmed, non-empty names of
\* the two environment lists, whatever they held before, and changes neither
\* litellm.callbacks nor the handle hooks that set_callbacks has to consider.
C18_EnvOverwriteLeavesHandles ==
    [][EnvStep =>
          /\ success_callback' = ParseCallbackNames(environ.success)
          /\ failure_callback' = ParseCallbackNames(environ.failure)
          /\ callbacks' = callbacks
          /\ HandleHooks(async_success_callback') = HandleHooks(async_success_callback)
          /\ HandleHooks(success_callback') = HandleHooks(success_callback)]_vars

----------------------------------------------------------------------------
(* Properties of the budget under concurrent calls, under SpecCtxThreads *)

\* C19: every get_context_window_size call on a client that two threads share
\* returns the final budget of the model name, the scaled capacity of the
\* last matching key or 6144 when no key matches, and never a value that was
\* in the cache while another thread was still going over the table.
C19_EveryCallReturnsFinalBudget ==
    \A n \in 1..Len(ctxLog) :
        ctxLog[n].returned = BudgetOf(ctxLog[n].table, llm["model"])

----------------------------------------------------------------------------
(* Properties of set_callbacks under concurrent use, under SpecThreads *)

\* C20: set_callbacks does not raise when two threads run it at once, so
\* neither a constructor nor a call with a callbacks override ends with the
\* ValueError of a removal whose hook another thread has already taken out.
C20_SetCallbacksNeverRaises ==
    ~(last.op \in {"init", "call"} /\ last.outcome = Raise("ValueError"))

====
